---- MODULE Spec2Model ----
(***************************************************************************)
(* Serava reverse proxy: the request pipeline of src/src/proxy.rs.         *)
(*                                                                         *)
(*   SpecHdr  sanitize_and_forward_headers applied to bounded header sets  *)
(*   SpecRL   check_rate_limit, two concurrent handlers, a ticking clock   *)
(*   Spec     proxy_handler with the response cache, two handlers          *)
(*                                                                         *)
(* Time is in milliseconds.  Token counts are kept exactly, scaled by      *)
(* TokenScale (one token = 60000 units), so that elapsed_ms * per_minute   *)
(* is the refill of line 213 without rounding.                             *)
(***************************************************************************)
EXTENDS Integers, Sequences, FiniteSets, TLC

\* ------------------------------------------------------------------ bounds
MaxHdrs == 2
MaxChecks == 4
MaxRlTicks == 3
MaxReq == 2
MaxServed == 2
MaxTicks == 2
UsizeBits == 4
MaxFwd == 5

\* ------------------------------------------------------- units of measure
MsPerSec == 1000
SecPerMin == 60
TokenScale == MsPerSec * SecPerMin
RlTickMs == MsPerSec \div 2

VARIABLES
    hdr_pc,             \* "in": headers arriving, "built": upstream request built
    req_headers,        \* the inbound HeaderMap, in iteration order
    rb_headers,         \* the headers of the upstream request builder
    clock,              \* Instant::now(), ms
    rate_limit_map,     \* AppState.rate_limit_map: ip -> bucket
    rl_pc,              \* per handler: position inside check_rate_limit
    rl_ip,              \* per handler: the client ip it resolved
    rl_now,             \* per handler: the `now` of line 199
    rl_log,             \* the checks in the order of their bucket update
    cfg_rl,             \* ConfigEntry: rate_limit_per_minute and rate_limit_burst
    app_rl,             \* AppState: rate_limit_per_minute and rate_limit_burst
    cache_max_size_bytes,   \* AppState.cache_max_size_bytes: <<>> is None, <<n>> is Some(n)
    response_cache,     \* AppState.response_cache: cache key -> CacheEntry
    cache_current_size, \* AppState.cache_current_size (usize, wrapping)
    counter,            \* AppState.counter, the backend cursor (usize, wrapping)
    pc,                 \* per handler: position inside proxy_handler
    loc,                \* per handler: the locals of proxy_handler
    n_req,              \* requests that went past the cache lookup so far
    gen,                \* per cache key: the inserts so far
    upstream_calls,     \* requests sent to a backend so far
    served,             \* the responses served from the cache
    backends,           \* AppState.backends, the backend base urls
    fwd_log             \* the backend index of each request sent, in cursor order

hdrVars == <<hdr_pc, req_headers, rb_headers>>
rlVars == <<rate_limit_map, rl_pc, rl_ip, rl_now, rl_log, cfg_rl, app_rl>>
cacheVars == <<cache_max_size_bytes, response_cache, cache_current_size, counter, pc, loc,
               n_req, gen, upstream_calls, served, backends, fwd_log>>
vars == <<hdr_pc, req_headers, rb_headers, clock, rate_limit_map, rl_pc, rl_ip, rl_now, rl_log,
          cfg_rl, app_rl,
          cache_max_size_bytes, response_cache, cache_current_size, counter, pc, loc,
          n_req, gen, upstream_calls, served, backends, fwd_log>>

Handlers == {1, 2}
None == "none"

Min(a, b) == IF a < b THEN a ELSE b
Max(a, b) == IF a > b THEN a ELSE b

\* ================================================================ headers

\* Header names as they come off the wire.  "X-Long" stands for a name of
\* 300 bytes.
WireNames ==
    {"Connection", "Keep-Alive", "Proxy-Authenticate", "Proxy-Authorization",
     "TE", "Trailer", "Transfer-Encoding", "Upgrade", "Host",
     "Authorization", "authorization", "X-Trace", "x-trace", "X-Long"}

to_ascii_lowercase(n) ==
    CASE n = "Connection" -> "connection"
      [] n = "Keep-Alive" -> "keep-alive"
      [] n = "Proxy-Authenticate" -> "proxy-authenticate"
      [] n = "Proxy-Authorization" -> "proxy-authorization"
      [] n = "TE" -> "te"
      [] n = "Trailer" -> "trailer"
      [] n = "Transfer-Encoding" -> "transfer-encoding"
      [] n = "Upgrade" -> "upgrade"
      [] n = "Host" -> "host"
      [] n = "Authorization" -> "authorization"
      [] n = "X-Trace" -> "x-trace"
      [] n = "X-Long" -> "x-long"
      [] n = "No-Cache" -> "no-cache"
      [] n = "S-MaxAge" -> "s-maxage"
      [] OTHER -> n

eq_ignore_ascii_case(a, b) == to_ascii_lowercase(a) = to_ascii_lowercase(b)

name_len(n) == IF to_ascii_lowercase(n) = "x-long" THEN 300 ELSE 8

\* Header values are sequences of byte classes:
\*   "a" visible ASCII, "SP" space, "HT" tab, "CTL" another control character,
\*   "HI" a non-ASCII UTF-8 scalar, "BAD" a byte that is not UTF-8,
\*   "BIG" a run of 16 KiB + 1 visible ASCII bytes.
WireValues ==
    {<<"a">>, <<"SP", "a", "SP">>, <<"a", "HT", "a">>, <<"a", "CTL">>,
     <<"HI">>, <<"BAD">>, <<"BIG">>}

RECURSIVE raw_len(_)
raw_len(v) ==
    IF v = <<>> THEN 0
    ELSE (IF Head(v) = "BIG" THEN 16 * 1024 + 1 ELSE 1) + raw_len(Tail(v))

is_utf8(v) == \A i \in 1..Len(v) : v[i] # "BAD"
has_control(v) == \E i \in 1..Len(v) : v[i] = "CTL"
is_whitespace(c) == c \in {"SP", "HT"}

RECURSIVE trim_start(_)
trim_start(v) ==
    IF v # <<>> /\ is_whitespace(Head(v)) THEN trim_start(Tail(v)) ELSE v

RECURSIVE trim_end(_)
trim_end(v) ==
    IF v # <<>> /\ is_whitespace(v[Len(v)])
    THEN trim_end(SubSeq(v, 1, Len(v) - 1))
    ELSE v

trim(v) == trim_end(trim_start(v))

\* HeaderValue::from_str: visible ASCII, space and tab only.
header_value_from_str_ok(v) == \A i \in 1..Len(v) : v[i] \in {"a", "SP", "HT", "BIG"}

\* HeaderName::from_bytes lower-cases; every name of a HeaderMap is valid.
header_name_from_bytes(n) == to_ascii_lowercase(n)

HOP_BY_HOP_HEADERS ==
    {"connection", "keep-alive", "proxy-authenticate", "proxy-authorization",
     "te", "trailer", "transfer-encoding", "upgrade", "host"}

\* (mutant) the list without its last entry
is_hop_by_hop_NoHost(name) ==
    \E h \in HOP_BY_HOP_HEADERS \ {"host"} : eq_ignore_ascii_case(h, name)

is_hop_by_hop(name) == \E h \in HOP_BY_HOP_HEADERS : eq_ignore_ascii_case(h, name)

is_sensitive(hn) == hn = "authorization" \/ hn = "proxy-authorization"

\* One iteration of the loop of sanitize_and_forward_headers: the headers
\* it adds to the builder for the inbound header h (none or one).
sanitize_one(h) ==
    IF is_hop_by_hop(h.name) THEN <<>>
    ELSE IF name_len(h.name) = 0 \/ name_len(h.name) > 256 THEN <<>>
    ELSE IF raw_len(h.val) > 16 * 1024 THEN <<>>
    ELSE IF ~is_utf8(h.val) THEN <<>>
    ELSE IF has_control(h.val) THEN <<>>
    ELSE IF is_sensitive(header_name_from_bytes(h.name)) THEN <<>>
    ELSE IF ~header_value_from_str_ok(trim(h.val)) THEN <<>>
    ELSE <<[name |-> header_name_from_bytes(h.name), val |-> trim(h.val)]>>

RECURSIVE sanitize_and_forward_headers(_)
sanitize_and_forward_headers(headers) ==
    IF headers = <<>> THEN <<>>
    ELSE sanitize_one(Head(headers)) \o sanitize_and_forward_headers(Tail(headers))

\* The server parses one more header of the inbound request into the
\* HeaderMap (http::HeaderName is stored lower-cased).
HdrArrive ==
    /\ hdr_pc = "in"
    /\ Len(req_headers) < MaxHdrs
    /\ \E n \in WireNames, v \in WireValues :
          req_headers' = Append(req_headers, [name |-> to_ascii_lowercase(n), val |-> v])
    /\ UNCHANGED <<hdr_pc, rb_headers, clock, rlVars, cacheVars>>

\* proxy_handler line 288: the upstream request's headers are built.
HdrSanitize ==
    /\ hdr_pc = "in"
    /\ hdr_pc' = "built"
    /\ rb_headers' = sanitize_and_forward_headers(req_headers)
    /\ UNCHANGED <<req_headers, clock, rlVars, cacheVars>>

HdrInit ==
    /\ hdr_pc = "in"
    /\ req_headers = <<>>
    /\ rb_headers = <<>>

\* ============================================================ rate limit

IPs == {"10.0.0.1", "10.0.0.2"}

\* The rate limiter's configuration in SpecRL and Spec (config.rs 51-52).
rate_limit_per_minute == 60
rate_limit_burst == 1

\* main.rs 108-111: cfg.rate_limit_burst.or(cfg.rate_limit_per_minute)
startup_burst(burst, per_minute) == IF burst # <<>> THEN burst ELSE per_minute

\* main.rs 107-111: the two rate-limit fields of AppState.  An Option is a
\* sequence of length 0 (None) or 1 (Some).
build_app_rl(cfg) ==
    [per_minute |-> cfg.per_minute, burst |-> startup_burst(cfg.burst, cfg.per_minute)]

\* AppState before main has built it
Unbuilt == [per_minute |-> <<>>, burst |-> <<>>]

\* lines 201-203: per_min, and burst = rate_limit_burst.unwrap_or(per_min)
per_min == app_rl.per_minute[1]
burst_used == IF app_rl.burst # <<>> THEN app_rl.burst[1] ELSE per_min

NoBucket == [tokens |-> -1, last |-> -1]

\* X-Forwarded-For values: a list of tokens; the first is tried as an IP.
XffValues == {None, <<"10.0.0.1">>, <<"junk", "10.0.0.1">>, <<"10.0.0.2", "10.0.0.1">>}

RlRequests == [xff : XffValues, peer : IPs]

parse_ip(tok) == IF tok \in IPs THEN tok ELSE None

\* (mutant) lines 164-197 with an address made up when none is found
client_ip_MadeUp(req) ==
    IF req.xff # None /\ parse_ip(Head(req.xff)) # None
    THEN parse_ip(Head(req.xff))
    ELSE IF req.peer # None THEN req.peer ELSE "10.0.0.1"

\* lines 164-197: X-Forwarded-For first, then the peer address.
client_ip(req) ==
    IF req.xff # None /\ parse_ip(Head(req.xff)) # None
    THEN parse_ip(Head(req.xff))
    ELSE req.peer

\* or_insert((0.0, now)) of line 211
\* (mutant) a fresh bucket that starts full
new_bucket_Full(now) == [tokens |-> burst_used * TokenScale, last |-> now]

new_bucket(now) == [tokens |-> 0, last |-> now]

\* Instant::duration_since saturates at zero.
duration_since(now, earlier) == Max(0, now - earlier)

\* lines 211-218 on the bucket found or inserted: the bucket after the
\* check, and whether the request is allowed.
bucket_check(b, now) ==
    LET elapsed == duration_since(now, b.last)
        topped == Min(burst_used * TokenScale, b.tokens + elapsed * per_min)
        allowed == topped >= TokenScale
    IN  [bucket |-> [tokens |-> IF allowed THEN topped - TokenScale ELSE topped,
                     last |-> now],
         allowed |-> allowed]

\* check_rate_limit up to line 199, with rate limiting enabled (line 160):
\* the ip is resolved and `now` is read.
RlObserve(h) ==
    /\ rl_pc[h] = "idle"
    /\ app_rl.per_minute # <<>>
    /\ Len(rl_log) + Cardinality({g \in Handlers : rl_pc[g] = "entry"}) < MaxChecks
    /\ \E req \in RlRequests :
          rl_ip' = [rl_ip EXCEPT ![h] = client_ip(req)]
    /\ rl_now' = [rl_now EXCEPT ![h] = clock]
    /\ rl_pc' = [rl_pc EXCEPT ![h] = "entry"]
    /\ UNCHANGED <<hdrVars, clock, rate_limit_map, rl_log, cfg_rl, app_rl, cacheVars>>

\* (mutant) lines 211-226 with the time read under the lock
RlUpdate_NowAtLock(h) ==
    /\ rl_pc[h] = "entry"
    /\ LET ip == rl_ip[h]
           fresh == rate_limit_map[ip] = NoBucket
           b == IF fresh THEN new_bucket(clock) ELSE rate_limit_map[ip]
           r == bucket_check(b, clock)
       IN  /\ rate_limit_map' = [rate_limit_map EXCEPT ![ip] = r.bucket]
           /\ rl_log' = Append(rl_log, [ip |-> ip, now |-> rl_now[h], at |-> clock,
                                        ok |-> r.allowed, fresh |-> fresh])
    /\ rl_pc' = [rl_pc EXCEPT ![h] = "idle"]
    /\ rl_ip' = [rl_ip EXCEPT ![h] = None]
    /\ rl_now' = [rl_now EXCEPT ![h] = 0]
    /\ UNCHANGED <<hdrVars, clock, cfg_rl, app_rl, cacheVars>>

\* lines 211-226 under the entry's shard lock: refill, decide, return.
RlUpdate(h) ==
    /\ rl_pc[h] = "entry"
    /\ LET ip == rl_ip[h]
           fresh == rate_limit_map[ip] = NoBucket
           b == IF fresh THEN new_bucket(rl_now[h]) ELSE rate_limit_map[ip]
           r == bucket_check(b, rl_now[h])
       IN  /\ rate_limit_map' = [rate_limit_map EXCEPT ![ip] = r.bucket]
           /\ rl_log' = Append(rl_log, [ip |-> ip, now |-> rl_now[h], at |-> clock,
                                        ok |-> r.allowed, fresh |-> fresh])
    /\ rl_pc' = [rl_pc EXCEPT ![h] = "idle"]
    /\ rl_ip' = [rl_ip EXCEPT ![h] = None]
    /\ rl_now' = [rl_now EXCEPT ![h] = 0]
    /\ UNCHANGED <<hdrVars, clock, cfg_rl, app_rl, cacheVars>>

RlTick ==
    /\ clock < MaxRlTicks * RlTickMs
    /\ clock' = clock + RlTickMs
    /\ UNCHANGED <<hdrVars, rlVars, cacheVars>>

\* main.rs 106: an empty bucket table; no check under way
RlTableInit ==
    /\ rate_limit_map = [ip \in IPs |-> NoBucket]
    /\ rl_pc = [h \in Handlers |-> "idle"]
    /\ rl_ip = [h \in Handlers |-> None]
    /\ rl_now = [h \in Handlers |-> 0]
    /\ rl_log = <<>>

RlInit ==
    /\ RlTableInit
    /\ cfg_rl = [per_minute |-> <<rate_limit_per_minute>>, burst |-> <<rate_limit_burst>>]
    /\ app_rl = build_app_rl(cfg_rl)

\* ---- the burst default: configurations with rate limiting enabled
RlConfigs == [per_minute : {<<60>>, <<120>>}, burst : {<<>>, <<0>>, <<2>>}]

\* main.rs 101-116: AppState is built from the configuration
Startup ==
    /\ app_rl = Unbuilt
    /\ app_rl' = build_app_rl(cfg_rl)
    /\ UNCHANGED <<hdrVars, clock, rate_limit_map, rl_pc, rl_ip, rl_now, rl_log, cfg_rl,
                   cacheVars>>

\* ================================================================= cache

Methods == {"GET", "POST"}
Uris == {"/x", "/y"}

\* the requests that arrive: a GET of either uri, a POST of one
Requests ==
    {[method |-> "GET", uri |-> u] : u \in Uris} \cup {[method |-> "POST", uri |-> "/x"]}

\* format!("{} {}", method, uri) of line 244: the pair (a method holds no space)
cache_key(method, uri) == <<method, uri>>

CacheKeys == {cache_key(r.method, r.uri) : r \in Requests}

\* DashMap shards; a key's shard is fixed by its hash.
NumShards == Cardinality(Uris)
shard_of(k) == IF k[2] = "/x" THEN 1 ELSE 2

\* AppState.cache_ttl_secs (main.rs 113): Some(2).  An Option is a sequence
\* of length 0 (None) or 1 (Some).
cache_ttl_secs == <<2>>

\* main.rs 82-98: the cache exists iff cache_ttl_secs is Some(nonzero)
response_cache_enabled == cache_ttl_secs # <<>> /\ cache_ttl_secs[1] # 0

CapChoices == {<<>>, <<2>>}

\* AppState.backends (main.rs 103): two backends
Backends == <<"B0", "B1">>

\* backend lists of one to three urls (config.rs 150 rejects an empty list)
BackendChoices == {<<"B0">>, <<"B0", "B1">>, <<"B0", "B1", "B2">>}

UsizeMod == 2 ^ UsizeBits

\* (mutant) an addition that stops at the largest value
wrapping_add_Saturating(a, b) == Min(a + b, UsizeMod - 1)

wrapping_add(a, b) == (a + b) % UsizeMod
wrapping_sub(a, b) == (a - b + UsizeMod) % UsizeMod
saturating_sub(a, b) == Max(0, a - b)

\* CacheEntry (lines 27-33), with three fields that are not in the code: gen numbers the inserts of the entry's key, t0 is the
\* time of the insert, cfg tells that the ttl is the configured one.
NoEntry ==
    [status |-> 0, headers |-> <<>>, body |-> <<>>, expires_at |-> 0, size |-> 0,
     gen |-> 0, t0 |-> 0, cfg |-> FALSE]

\* ---- what a backend may answer
Statuses == {200, 404}
Bodies == {<<1>>, <<2, 2>>}

\* A Cache-Control value is a list of comma-separated parts; a part is its
\* text before '=', whether it has an '=', and the characters after it
\* ("0".."9" digits, "Q" a double quote, "x" a letter).
Part(k, eq, v) == [k |-> k, eq |-> eq, v |-> v]

\* The Cache-Control header of a response: absent (<<>>) or present (<<value>>).
ResponseCCs ==
    {<<>>,
     <<<<Part("max-age", TRUE, <<"1">>)>>>>,
     <<<<Part("max-age", TRUE, <<"0">>)>>>>,
     <<<<Part("public", FALSE, <<>>), Part("s-maxage", TRUE, <<"Q", "1", "Q">>),
         Part("max-age", TRUE, <<"2">>)>>>>,
     <<<<Part("max-age", TRUE, <<"x">>)>>>>,
     <<<<Part("s-maxage", TRUE, <<"x">>), Part("max-age", TRUE, <<"1">>)>>>>,
     <<<<Part("max-age", TRUE, <<"2">>), Part("S-MaxAge", TRUE, <<"1">>)>>>>,
     <<<<Part("no-store", FALSE, <<>>), Part("max-age", TRUE, <<"1">>)>>>>,
     <<<<Part("s-maxage", TRUE, <<"1">>), Part("No-Cache", FALSE, <<>>)>>>>}

Digits == {"0", "1", "2", "3", "4", "5", "6", "7", "8", "9"}
digit_val(c) ==
    CASE c = "0" -> 0 [] c = "1" -> 1 [] c = "2" -> 2 [] c = "3" -> 3 [] c = "4" -> 4
      [] c = "5" -> 5 [] c = "6" -> 6 [] c = "7" -> 7 [] c = "8" -> 8 [] c = "9" -> 9

RECURSIVE trim_quotes_start(_)
trim_quotes_start(v) == IF v # <<>> /\ Head(v) = "Q" THEN trim_quotes_start(Tail(v)) ELSE v

RECURSIVE trim_quotes_end(_)
trim_quotes_end(v) ==
    IF v # <<>> /\ v[Len(v)] = "Q" THEN trim_quotes_end(SubSeq(v, 1, Len(v) - 1)) ELSE v

trim_matches_quote(v) == trim_quotes_end(trim_quotes_start(v))

RECURSIVE digits_value(_)
digits_value(v) ==
    IF v = <<>> THEN 0 ELSE 10 * digits_value(SubSeq(v, 1, Len(v) - 1)) + digit_val(v[Len(v)])

\* str::parse::<u64>: Some(n) for a non-empty run of digits, None otherwise
parse_u64(v) ==
    IF v # <<>> /\ \A i \in 1..Len(v) : v[i] \in Digits THEN <<digits_value(v)>> ELSE <<>>

\* lines 330-350, one part of the header folded into the result so far
parse_part(acc, p) ==
    IF ~p.eq /\ (eq_ignore_ascii_case(p.k, "no-store") \/ eq_ignore_ascii_case(p.k, "no-cache"))
    THEN [acc EXCEPT !.no_store = TRUE]
    ELSE IF p.eq
    THEN LET n == parse_u64(trim_matches_quote(p.v))
         IN  IF eq_ignore_ascii_case(p.k, "s-maxage")
             THEN (IF n # <<>> THEN [acc EXCEPT !.s_maxage = n] ELSE acc)
             ELSE IF eq_ignore_ascii_case(p.k, "max-age")
             THEN (IF n # <<>> THEN [acc EXCEPT !.maxage = n] ELSE acc)
             ELSE acc
    ELSE acc

RECURSIVE parse_parts(_, _)
parse_parts(acc, parts) ==
    IF parts = <<>> THEN acc ELSE parse_parts(parse_part(acc, Head(parts)), Tail(parts))

parse_cache_control_bytes(hv) ==
    parse_parts([s_maxage |-> <<>>, maxage |-> <<>>, no_store |-> FALSE], hv)

\* (mutant) Option::or preferring its argument
option_or_Second(a, b) == IF b # <<>> THEN b ELSE a

\* Option::or (lines 366): self when it is Some, else the argument
option_or(a, b) == IF a # <<>> THEN a ELSE b

\* lines 358-370: (ttl_seconds, backend_forbids_cache, whether the ttl is
\* the configured one) for a response's Cache-Control
resolve_ttl(cc) ==
    LET parsed == IF cc = <<>>
                  THEN [s_maxage |-> <<>>, maxage |-> <<>>, no_store |-> FALSE]
                  ELSE parse_cache_control_bytes(cc[1])
        from_header == option_or(parsed.s_maxage, parsed.maxage)
    IN  [ttl |-> option_or(from_header, cache_ttl_secs),
         forbids |-> parsed.no_store,
         cfg |-> from_header = <<>>]

\* (mutant) lines 373-377 without the backend_forbids_cache conjunct
should_cache_IgnoreForbids(method, status, cc) ==
    /\ method = "GET"
    /\ status = 200
    /\ resolve_ttl(cc).ttl # <<>>
    /\ response_cache_enabled

\* lines 373-377
should_cache(method, status, cc) ==
    /\ method = "GET"
    /\ status = 200
    /\ ~resolve_ttl(cc).forbids
    /\ resolve_ttl(cc).ttl # <<>>
    /\ response_cache_enabled

\* (mutant) line 250 with <= for <
is_fresh_Le(now, expires_at) == now <= expires_at

\* line 250
is_fresh(now, expires_at) == now < expires_at

\* (mutant) line 397 with the ttl taken as milliseconds
expiry_Ms(now, ttl) == now + ttl

\* line 397: Instant::now() + Duration::from_secs(ttl)
expiry(now, ttl) == now + ttl * MsPerSec

\* ---- the eviction pass's sort (line 415): a stable sort by expires_at
RECURSIVE insert_sorted(_, _)
insert_sorted(sorted, e) ==
    IF sorted = <<>> THEN <<e>>
    ELSE IF e.expires_at < Head(sorted).expires_at THEN <<e>> \o sorted
    ELSE <<Head(sorted)>> \o insert_sorted(Tail(sorted), e)

RECURSIVE sort_by_key(_)
sort_by_key(items) ==
    IF items = <<>> THEN <<>>
    ELSE insert_sorted(sort_by_key(SubSeq(items, 1, Len(items) - 1)), items[Len(items)])

RECURSIVE set_to_seq(_)
set_to_seq(S) ==
    IF S = {} THEN <<>> ELSE LET x == CHOOSE y \in S : TRUE IN <<x>> \o set_to_seq(S \ {x})

\* cache.iter() on one shard: (key, expires_at) of its entries, with the
\* entry's insert number (gen, not in the code) to tell it from a later entry
\* under the same key
shard_items(s) ==
    set_to_seq({[k |-> k, expires_at |-> response_cache[k].expires_at,
                 gen |-> response_cache[k].gen] :
                k \in {c \in CacheKeys : shard_of(c) = s /\ response_cache[c] # NoEntry}})

\* lines 411-414: cache.iter() goes through the shards in order; the
\* collection is taken as one step
RECURSIVE cache_iter(_)
cache_iter(s) == IF s > NumShards THEN <<>> ELSE shard_items(s) \o cache_iter(s + 1)

\* What the handler returns (lines 303, 310, 430, 438): the status, and
\* where the body comes from: "none" (an error status of the proxy),
\* "stream" (the upstream body passed on), "buffer" (the body read for the
\* cache), "cache" (the body of a cache entry), "discarded" (an error status after a part of the upstream body
\* was read for the cache), "cancelled" (no response: the handler's future
\* was dropped at an await).
NoReply == [status |-> 0, body_from |-> "none"]

\* The headers and the body of the returned response (lines 259-261,
\* 390-392, 436-438).  A streamed body is passed on unread and an error has
\* none: both are <<>>.
NoResponse == [headers |-> <<>>, body |-> <<>>]

\* The locals of a handler.  headers is resp_headers (line 316), body the
\* bytes of line 381, response what is returned with the reply.  items holds the part of the sorted snapshot
\* (line 415) the loop of line 417 has not gone past; done (not in the code)
\* holds the part it has gone past.
IdleLoc ==
    [key |-> <<"", "">>, ttl |-> 0, cfg |-> FALSE, headers |-> <<>>, body |-> <<>>,
     items |-> <<>>, done |-> <<>>, cur_total |-> 0, removed |-> 0, reply |-> NoReply,
     response |-> NoResponse]

\* A handler holds a Ref (a read guard on the shard of its key) from the
\* cache.get of line 248 until the end of the `if let` block of 248-267.
holds_ref(g) == pc[g] = "remove"

\* A write lock on shard s (insert, remove) is granted when no Ref is held on s.
write_lockable(s) == \A g \in Handlers : holds_ref(g) => shard_of(loc[g].key) # s

\* (mutant) the loop of lines 417-420 stopping one byte above the cap
pass_continues_Slack(items, cur_total) ==
    items # <<>> /\ cur_total > cache_max_size_bytes[1] + 1

\* lines 417-420: the loop goes on while entries are left and the running
\* total exceeds the cap
pass_continues(items, cur_total) == items # <<>> /\ cur_total > cache_max_size_bytes[1]

\* (mutant) the pass without the sort of line 415 taking effect: latest first
sorted_items_Desc(items) ==
    LET a == sort_by_key(items) IN [i \in 1..Len(a) |-> a[Len(a) + 1 - i]]

sorted_items(items) == sort_by_key(items)

\* the handler has its result: Ok(response) with these headers and body
FinishWith(h, status, body_from, headers, body) ==
    /\ pc' = [pc EXCEPT ![h] = "reply"]
    /\ loc' = [loc EXCEPT ![h] =
          [IdleLoc EXCEPT !.key = loc[h].key,
                          !.reply = [status |-> status, body_from |-> body_from],
                          !.response = [headers |-> headers, body |-> body]]]

\* the handler has its result: Err(status), or a response whose body is not
\* held by the handler
Finish(h, status, body_from) == FinishWith(h, status, body_from, <<>>, <<>>)

\* the handler returns it
Return(h) ==
    /\ pc[h] = "reply"
    /\ pc' = [pc EXCEPT ![h] = "idle"]
    /\ loc' = [loc EXCEPT ![h] = IdleLoc]
    /\ UNCHANGED <<hdrVars, clock, rlVars, cache_max_size_bytes, response_cache,
                   cache_current_size, counter, n_req, gen, upstream_calls, served,
                   backends, fwd_log>>

\* a request that is not answered from the cache
Accept == n_req < MaxReq /\ n_req' = n_req + 1

\* lines 234-262, a fresh entry: backends are configured, rate limiting is
\* off (line 160), the entry is fresh and is served.
CacheHit(h, k) ==
    /\ pc[h] = "idle"
    /\ Cardinality(served) < MaxServed
    /\ response_cache_enabled
    /\ response_cache[k] # NoEntry
    /\ is_fresh(clock, response_cache[k].expires_at)
    /\ served' = served \cup
          {[key |-> k, status |-> response_cache[k].status, body |-> response_cache[k].body,
            expires_at |-> response_cache[k].expires_at, gen |-> response_cache[k].gen,
            t |-> clock]}
    /\ UNCHANGED <<hdrVars, clock, rlVars, cache_max_size_bytes, response_cache,
                   cache_current_size, counter, pc, loc, n_req, gen, upstream_calls,
                   backends, fwd_log>>

\* lines 234-264, an expired entry: the handler reaches cache.remove of
\* line 265 with entry_ref still alive.
CacheExpired(h, k) ==
    /\ pc[h] = "idle"
    /\ Accept
    /\ response_cache_enabled
    /\ response_cache[k] # NoEntry
    /\ ~is_fresh(clock, response_cache[k].expires_at)
    /\ pc' = [pc EXCEPT ![h] = "remove"]
    /\ loc' = [loc EXCEPT ![h] = [IdleLoc EXCEPT !.key = k]]
    /\ UNCHANGED <<hdrVars, clock, rlVars, cache_max_size_bytes, response_cache,
                   cache_current_size, counter, gen, upstream_calls, served,
                   backends, fwd_log>>

\* lines 234-268, no entry
CacheMiss(h, k) ==
    /\ pc[h] = "idle"
    /\ Accept
    /\ response_cache[k] = NoEntry
    /\ pc' = [pc EXCEPT ![h] = "select"]
    /\ loc' = [loc EXCEPT ![h] = [IdleLoc EXCEPT !.key = k]]
    /\ UNCHANGED <<hdrVars, clock, rlVars, cache_max_size_bytes, response_cache,
                   cache_current_size, counter, gen, upstream_calls, served,
                   backends, fwd_log>>

\* line 265, cache.remove(&cache_key), then on to line 270.  DashMap's remove
\* takes the write lock of the key's shard, which the handler's own entry_ref
\* keeps read-locked: the guard is never true, and the step is no disjunct of
\* Next.
RemoveExpired(h) ==
    /\ pc[h] = "remove"
    /\ write_lockable(shard_of(loc[h].key))
    /\ response_cache' = [response_cache EXCEPT ![loc[h].key] = NoEntry]
    /\ pc' = [pc EXCEPT ![h] = "select"]
    /\ UNCHANGED <<hdrVars, clock, rlVars, cache_max_size_bytes, cache_current_size, counter,
                   loc, n_req, gen, upstream_calls, served,
                   backends, fwd_log>>

\* (mutant) line 270 with the value after the increment
backend_index_Next(cursor, n) == (cursor + 1) % n

\* line 270: fetch_add returns the cursor before the increment
backend_index(cursor, n) == cursor % n

\* lines 270-298: the cursor is drawn, the upstream request is built and sent
SelectAndSend(h) ==
    /\ pc[h] = "select"
    /\ counter' = wrapping_add(counter, 1)
    /\ fwd_log' = Append(fwd_log, backend_index(counter, Len(backends)))
    /\ upstream_calls' = upstream_calls + 1
    /\ pc' = [pc EXCEPT ![h] = "send"]
    /\ UNCHANGED <<hdrVars, clock, rlVars, cache_max_size_bytes, response_cache,
                   cache_current_size, loc, n_req, gen, served, backends>>

\* A header of a response: a name of a HeaderMap (lower case) and a value.
Header(n, v) == [name |-> n, value |-> v]

\* (mutant) lines 314-322 without the test of line 318
resp_headers_of_Unfiltered(hdrs) == hdrs

\* lines 314-322: the headers of the upstream response that are not
\* hop-by-hop, in their order
resp_headers_of(hdrs) == SelectSeq(hdrs, LAMBDA x : ~is_hop_by_hop(x.name))

\* HeaderValue::from_bytes (line 254): every byte but a control character
\* other than tab
header_value_from_bytes_ok(v) == \A i \in 1..Len(v) : v[i] # "CTL"

RECURSIVE replay_headers(_)
\* lines 252-258: the stored headers are put on the response, one that does
\* not parse is left out
replay_headers(stored) ==
    IF stored = <<>> THEN <<>>
    ELSE (IF header_value_from_bytes_ok(Head(stored).value)
          THEN <<Header(header_name_from_bytes(Head(stored).name), Head(stored).value)>>
          ELSE <<>>) \o replay_headers(Tail(stored))

\* lines 299-392 and 431-439: the backend answers with this status, these
\* headers next to Cache-Control, and this body; a cacheable response is
\* buffered (line 381) and goes on to the insert, any other is streamed.
UpstreamRespondFull(h, status, hdrs, cc, body) ==
    /\ pc[h] = "send"
    /\ IF should_cache(loc[h].key[1], status, cc)
       THEN /\ pc' = [pc EXCEPT ![h] = "insert"]
            /\ loc' = [loc EXCEPT ![h].ttl = resolve_ttl(cc).ttl[1],
                                  ![h].cfg = resolve_ttl(cc).cfg,
                                  ![h].headers = resp_headers_of(hdrs),
                                  ![h].body = body]
       ELSE FinishWith(h, status, "stream", resp_headers_of(hdrs), <<>>)
    /\ UNCHANGED <<hdrVars, clock, rlVars, cache_max_size_bytes, response_cache,
                   cache_current_size, counter, n_req, gen, upstream_calls, served,
                   backends, fwd_log>>

\* (mutant) lines 373-392 with the method left out of should_cache
UpstreamRespondWith_AnyMethod(h, status, cc, body) ==
    /\ pc[h] = "send"
    /\ IF should_cache("GET", status, cc)
       THEN /\ pc' = [pc EXCEPT ![h] = "insert"]
            /\ loc' = [loc EXCEPT ![h].ttl = resolve_ttl(cc).ttl[1],
                                  ![h].cfg = resolve_ttl(cc).cfg,
                                  ![h].body = body]
       ELSE Finish(h, status, "stream")
    /\ UNCHANGED <<hdrVars, clock, rlVars, cache_max_size_bytes, response_cache,
                   cache_current_size, counter, n_req, gen, upstream_calls, served,
                   backends, fwd_log>>

\* a response that carries no header but Cache-Control
UpstreamRespondWith(h, status, cc, body) == UpstreamRespondFull(h, status, <<>>, cc, body)

UpstreamRespond(h) ==
    \E status \in Statuses, cc \in ResponseCCs, body \in Bodies :
        UpstreamRespondWith(h, status, cc, body)

\* line 299: what timeout(backend_timeout, send) may fail with
SendFailures == {"transport", "timeout"}

\* (mutant) the two statuses of lines 303 and 310 exchanged
send_error_status_Swapped(failure) == IF failure = "timeout" THEN 502 ELSE 504

\* lines 301-311: the status for a failed send
send_error_status(failure) == IF failure = "timeout" THEN 504 ELSE 502

\* lines 301-311: transport error (502) or timeout (504); nothing of an
\* upstream response is passed on
UpstreamFailWith(h, failure) ==
    /\ pc[h] = "send"
    /\ Finish(h, send_error_status(failure), "none")
    /\ UNCHANGED <<hdrVars, clock, rlVars, cache_max_size_bytes, response_cache,
                   cache_current_size, counter, n_req, gen, upstream_calls, served,
                   backends, fwd_log>>

UpstreamFail(h) == \E failure \in SendFailures : UpstreamFailWith(h, failure)

\* what resp.bytes() of line 381 may hold when the read fails: a proper
\* prefix of a body
PartialBodies == {SubSeq(b, 1, n) : b \in Bodies, n \in 0..1} \ Bodies

\* (mutant) lines 381-387 going on to the insert with what was read
BufferFailWith_StorePartial(h, cc, partial) ==
    /\ pc[h] = "send"
    /\ should_cache(loc[h].key[1], 200, cc)
    /\ pc' = [pc EXCEPT ![h] = "insert"]
    /\ loc' = [loc EXCEPT ![h].ttl = resolve_ttl(cc).ttl[1],
                          ![h].cfg = resolve_ttl(cc).cfg,
                          ![h].body = partial]
    /\ UNCHANGED <<hdrVars, clock, rlVars, cache_max_size_bytes, response_cache,
                   cache_current_size, counter, n_req, gen, upstream_calls, served,
                   backends, fwd_log>>

\* lines 379-387: the response is cacheable and the read of its body fails
\* after `partial` was received: 502, and what was read is dropped
BufferFailWith(h, cc, partial) ==
    /\ pc[h] = "send"
    /\ should_cache(loc[h].key[1], 200, cc)
    /\ Finish(h, 502, "discarded")
    /\ UNCHANGED <<hdrVars, clock, rlVars, cache_max_size_bytes, response_cache,
                   cache_current_size, counter, n_req, gen, upstream_calls, served,
                   backends, fwd_log>>

BufferFail(h) == \E cc \in ResponseCCs, partial \in PartialBodies : BufferFailWith(h, cc, partial)

\* The client disconnects and the handler's future is dropped.  A future is
\* dropped at an await only; the handler awaits at line 299 (the send) and
\* at line 381 (the body read for the cache), and between the two it touches
\* nothing shared.
Cancel(h) ==
    /\ pc[h] = "send"
    /\ Finish(h, 0, "cancelled")
    /\ UNCHANGED <<hdrVars, clock, rlVars, cache_max_size_bytes, response_cache,
                   cache_current_size, counter, n_req, gen, upstream_calls, served,
                   backends, fwd_log>>

\* lines 395-405: the entry is built and inserted (an entry under the same
\* key is replaced)
CacheInsert(h) ==
    /\ pc[h] = "insert"
    /\ write_lockable(shard_of(loc[h].key))
    /\ gen' = [gen EXCEPT ![loc[h].key] = @ + 1]
    /\ response_cache' = [response_cache EXCEPT ![loc[h].key] =
          [status |-> 200, headers |-> loc[h].headers, body |-> loc[h].body,
           expires_at |-> expiry(clock, loc[h].ttl),
           size |-> Len(loc[h].body),
           gen |-> gen[loc[h].key] + 1, t0 |-> clock, cfg |-> loc[h].cfg]]
    /\ pc' = [pc EXCEPT ![h] = "add"]
    /\ UNCHANGED <<hdrVars, clock, rlVars, cache_max_size_bytes, cache_current_size, counter,
                   loc, n_req, upstream_calls, served,
                   backends, fwd_log>>

\* lines 406-409: the counter is raised; without a cap the handler returns
SizeAdd(h) ==
    /\ pc[h] = "add"
    /\ cache_current_size' = wrapping_add(cache_current_size, Len(loc[h].body))
    /\ IF cache_max_size_bytes = <<>>
       THEN FinishWith(h, 200, "buffer", loc[h].headers, loc[h].body)
       ELSE /\ pc' = [pc EXCEPT ![h] = "snap"]
            /\ loc' = loc
    /\ UNCHANGED <<hdrVars, clock, rlVars, cache_max_size_bytes, response_cache, counter,
                   n_req, gen, upstream_calls, served,
                   backends, fwd_log>>

\* lines 411-415: the entries are collected and sorted
Snapshot(h) ==
    /\ pc[h] = "snap"
    /\ loc' = [loc EXCEPT ![h].items = sorted_items(cache_iter(1))]
    /\ pc' = [pc EXCEPT ![h] = "load"]
    /\ UNCHANGED <<hdrVars, clock, rlVars, cache_max_size_bytes, response_cache,
                   cache_current_size, counter, n_req, gen, upstream_calls, served,
                   backends, fwd_log>>

\* (mutant) lines 416-420 without the test of line 418 before the first item
LoadTotal_NoTest(h) ==
    /\ pc[h] = "load"
    /\ IF loc[h].items # <<>>
       THEN /\ pc' = [pc EXCEPT ![h] = "evict"]
            /\ loc' = [loc EXCEPT ![h].cur_total = cache_current_size]
       ELSE FinishWith(h, 200, "buffer", loc[h].headers, loc[h].body)
    /\ UNCHANGED <<hdrVars, clock, rlVars, cache_max_size_bytes, response_cache,
                   cache_current_size, counter, n_req, gen, upstream_calls, served,
                   backends, fwd_log>>

\* lines 416-420: the counter is loaded and the loop is entered
LoadTotal(h) ==
    /\ pc[h] = "load"
    /\ IF pass_continues(loc[h].items, cache_current_size)
       THEN /\ pc' = [pc EXCEPT ![h] = "evict"]
            /\ loc' = [loc EXCEPT ![h].cur_total = cache_current_size]
       ELSE FinishWith(h, 200, "buffer", loc[h].headers, loc[h].body)
    /\ UNCHANGED <<hdrVars, clock, rlVars, cache_max_size_bytes, response_cache,
                   cache_current_size, counter, n_req, gen, upstream_calls, served,
                   backends, fwd_log>>

\* lines 421-422: cache.remove of the next item
EvictRemove(h) ==
    /\ pc[h] = "evict"
    /\ LET k == Head(loc[h].items).k
       IN  /\ write_lockable(shard_of(k))
           /\ IF response_cache[k] # NoEntry
              THEN /\ response_cache' = [response_cache EXCEPT ![k] = NoEntry]
                   /\ loc' = [loc EXCEPT
                         ![h].removed = response_cache[k].size,
                         ![h].cur_total = saturating_sub(loc[h].cur_total,
                                                         response_cache[k].size)]
                   /\ pc' = [pc EXCEPT ![h] = "sub"]
              ELSE /\ UNCHANGED response_cache
                   /\ IF pass_continues(Tail(loc[h].items), loc[h].cur_total)
                      THEN /\ loc' = [loc EXCEPT
                                 ![h].items = Tail(loc[h].items),
                                 ![h].done = Append(loc[h].done, Head(loc[h].items))]
                           /\ pc' = pc
                      ELSE FinishWith(h, 200, "buffer", loc[h].headers, loc[h].body)
    /\ UNCHANGED <<hdrVars, clock, rlVars, cache_max_size_bytes, cache_current_size, counter,
                   n_req, gen, upstream_calls, served,
                   backends, fwd_log>>

\* lines 423-425: the counter is lowered by the removed entry's size
SizeSub(h) ==
    /\ pc[h] = "sub"
    /\ cache_current_size' = wrapping_sub(cache_current_size, loc[h].removed)
    /\ IF pass_continues(Tail(loc[h].items), loc[h].cur_total)
       THEN /\ loc' = [loc EXCEPT ![h].items = Tail(loc[h].items),
                                  ![h].done = Append(loc[h].done, Head(loc[h].items)),
                                  ![h].removed = 0]
            /\ pc' = [pc EXCEPT ![h] = "evict"]
       ELSE FinishWith(h, 200, "buffer", loc[h].headers, loc[h].body)
    /\ UNCHANGED <<hdrVars, clock, rlVars, cache_max_size_bytes, response_cache, counter,
                   n_req, gen, upstream_calls, served,
                   backends, fwd_log>>

Tick ==
    /\ clock < MaxTicks * MsPerSec
    /\ clock' = clock + MsPerSec
    /\ UNCHANGED <<hdrVars, rlVars, cacheVars>>

CacheEmptyInit ==
    /\ response_cache = [k \in CacheKeys |-> NoEntry]
    /\ cache_current_size = 0
    /\ counter = 0
    /\ pc = [h \in Handlers |-> "idle"]
    /\ loc = [h \in Handlers |-> IdleLoc]
    /\ n_req = 0
    /\ gen = [k \in CacheKeys |-> 0]
    /\ upstream_calls = 0
    /\ served = {}
    /\ fwd_log = <<>>

CacheInit == cache_max_size_bytes \in CapChoices /\ CacheEmptyInit

\* ========================================================= specifications

Init == HdrInit /\ RlInit /\ CacheInit /\ clock = 0 /\ backends = Backends

NextHdr == HdrArrive \/ HdrSanitize

SpecHdr == Init /\ [][NextHdr]_vars

NextRL == RlTick \/ \E h \in Handlers : RlObserve(h) \/ RlUpdate(h)

SpecRL == Init /\ [][NextRL]_vars

InitBurst ==
    /\ HdrInit /\ RlTableInit /\ CacheInit /\ clock = 0 /\ backends = Backends
    /\ cfg_rl \in RlConfigs
    /\ app_rl = Unbuilt

NextBurst == Startup \/ NextRL

SpecBurst == InitBurst /\ [][NextBurst]_vars

\* ---- round robin: requests that the cache does not answer

\* lines 229-268 for a request that is forwarded: backends are configured,
\* rate limiting is off (line 160), the cache holds nothing for a POST
ForwardArrive(h) ==
    /\ pc[h] = "idle"
    /\ upstream_calls + Cardinality({g \in Handlers : pc[g] = "select"}) < MaxFwd
    /\ pc' = [pc EXCEPT ![h] = "select"]
    /\ loc' = [loc EXCEPT ![h] = [IdleLoc EXCEPT !.key = cache_key("POST", "/x")]]
    /\ UNCHANGED <<hdrVars, clock, rlVars, cache_max_size_bytes, response_cache,
                   cache_current_size, counter, n_req, gen, upstream_calls, served,
                   backends, fwd_log>>

InitRR == HdrInit /\ RlInit /\ CacheInit /\ clock = 0 /\ backends \in BackendChoices

NextRR ==
    \E h \in Handlers :
        \/ ForwardArrive(h)
        \/ SelectAndSend(h)
        \/ UpstreamRespond(h)
        \/ UpstreamFail(h)
        \/ Return(h)

SpecRR == InitRR /\ [][NextRR]_vars

\* ---- round robin over the wrap of the cursor

\* as ForwardArrive, for as many requests as take the cursor once around and
\* two further
ForwardArriveWrap(h) ==
    /\ pc[h] = "idle"
    /\ upstream_calls + Cardinality({g \in Handlers : pc[g] = "select"}) < UsizeMod + 2
    /\ pc' = [pc EXCEPT ![h] = "select"]
    /\ loc' = [loc EXCEPT ![h] = [IdleLoc EXCEPT !.key = cache_key("POST", "/x")]]
    /\ UNCHANGED <<hdrVars, clock, rlVars, cache_max_size_bytes, response_cache,
                   cache_current_size, counter, n_req, gen, upstream_calls, served,
                   backends, fwd_log>>

NextWrap ==
    \E h \in Handlers :
        \/ ForwardArriveWrap(h)
        \/ SelectAndSend(h)
        \/ UpstreamRespond(h)
        \/ UpstreamFail(h)
        \/ Return(h)

SpecWrap == InitRR /\ [][NextWrap]_vars

Lookup(h) == \E k \in CacheKeys : CacheHit(h, k) \/ CacheExpired(h, k) \/ CacheMiss(h, k)

Next ==
    \/ Tick
    \/ \E h \in Handlers :
          \/ Lookup(h)
          \/ SelectAndSend(h)
          \/ UpstreamRespond(h)
          \/ UpstreamFail(h)
          \/ BufferFail(h)
          \/ Cancel(h)
          \/ CacheInsert(h)
          \/ SizeAdd(h)
          \/ Snapshot(h)
          \/ LoadTotal(h)
          \/ EvictRemove(h)
          \/ SizeSub(h)
          \/ Return(h)

Spec == Init /\ [][Next]_vars

\* ---- the pipeline: empty-backend test, admission, cache lookup, forward

\* the requests of the pipeline: a GET and a POST of one uri
PipeKeys == {cache_key("GET", "/x"), cache_key("POST", "/x")}

\* who sends them: X-Forwarded-For and the peer address of the connection
\* (None: the request carries no ConnectInfo and no SocketAddr extension)
PipeClients ==
    {[xff |-> None, peer |-> None],
     [xff |-> None, peer |-> "10.0.0.1"],
     [xff |-> <<"10.0.0.2", "10.0.0.1">>, peer |-> "10.0.0.1"],
     [xff |-> <<"junk", "10.0.0.1">>, peer |-> None]}

\* rate limiting disabled (no rate_limit_per_minute), or 60 per minute, burst 1
PipeRlConfigs ==
    {[per_minute |-> <<>>, burst |-> <<>>],
     [per_minute |-> <<rate_limit_per_minute>>, burst |-> <<rate_limit_burst>>]}

\* (mutant) lines 233-241 with the gate run before the empty-backend test
PipeArriveWith_GateFirst(h, k, req) ==
    /\ pc[h] = "idle"
    /\ n_req + Cardinality({g \in Handlers : pc[g] \in {"gate", "lookup"}}) < MaxReq
    /\ loc' = [loc EXCEPT ![h] = [IdleLoc EXCEPT !.key = k]]
    /\ IF app_rl.per_minute = <<>> \/ client_ip(req) = None
       THEN /\ pc' = [pc EXCEPT ![h] = "lookup"]
            /\ UNCHANGED <<rl_pc, rl_ip, rl_now>>
       ELSE /\ pc' = [pc EXCEPT ![h] = "gate"]
            /\ rl_pc' = [rl_pc EXCEPT ![h] = "entry"]
            /\ rl_ip' = [rl_ip EXCEPT ![h] = client_ip(req)]
            /\ rl_now' = [rl_now EXCEPT ![h] = clock]
    /\ UNCHANGED <<hdrVars, clock, rate_limit_map, rl_log, cfg_rl, app_rl,
                   cache_max_size_bytes, response_cache, cache_current_size, counter,
                   n_req, gen, upstream_calls, served, backends, fwd_log>>

\* lines 229-241 and 158-199: a request of key k from client req arrives.
\* Without backends the handler returns 502 (line 234).  Else it enters
\* check_rate_limit: rate limiting disabled (line 160) or no ip attributable
\* (line 196) allows the request; else the ip is resolved and `now` is read
\* (line 199).
PipeArriveWith(h, k, req) ==
    /\ pc[h] = "idle"
    /\ n_req + Cardinality({g \in Handlers : pc[g] \in {"gate", "lookup"}}) < MaxReq
    /\ IF backends = <<>>
       THEN /\ pc' = [pc EXCEPT ![h] = "reply"]
            /\ loc' = [loc EXCEPT ![h] =
                  [IdleLoc EXCEPT !.key = k,
                                  !.reply = [status |-> 502, body_from |-> "none"]]]
            /\ UNCHANGED <<rl_pc, rl_ip, rl_now>>
       ELSE /\ loc' = [loc EXCEPT ![h] = [IdleLoc EXCEPT !.key = k]]
            /\ IF app_rl.per_minute = <<>> \/ client_ip(req) = None
               THEN /\ pc' = [pc EXCEPT ![h] = "lookup"]
                    /\ UNCHANGED <<rl_pc, rl_ip, rl_now>>
               ELSE /\ pc' = [pc EXCEPT ![h] = "gate"]
                    /\ rl_pc' = [rl_pc EXCEPT ![h] = "entry"]
                    /\ rl_ip' = [rl_ip EXCEPT ![h] = client_ip(req)]
                    /\ rl_now' = [rl_now EXCEPT ![h] = clock]
    /\ UNCHANGED <<hdrVars, clock, rate_limit_map, rl_log, cfg_rl, app_rl,
                   cache_max_size_bytes, response_cache, cache_current_size, counter,
                   n_req, gen, upstream_calls, served, backends, fwd_log>>

PipeArrive(h) == \E k \in PipeKeys, req \in PipeClients : PipeArriveWith(h, k, req)

\* lines 205-226 and 238-241: the bucket is refilled and charged under its
\* lock; a denied request is answered 429, an allowed one goes on to the
\* cache lookup.  (rl_log, the history of the checks of SpecRL, is not kept
\* here.)
PipeGate(h) ==
    /\ pc[h] = "gate"
    /\ LET ip == rl_ip[h]
           fresh == rate_limit_map[ip] = NoBucket
           b == IF fresh THEN new_bucket(rl_now[h]) ELSE rate_limit_map[ip]
           r == bucket_check(b, rl_now[h])
       IN  /\ rate_limit_map' = [rate_limit_map EXCEPT ![ip] = r.bucket]
           /\ IF r.allowed
              THEN pc' = [pc EXCEPT ![h] = "lookup"] /\ loc' = loc
              ELSE Finish(h, 429, "none")
    /\ rl_pc' = [rl_pc EXCEPT ![h] = "idle"]
    /\ rl_ip' = [rl_ip EXCEPT ![h] = None]
    /\ rl_now' = [rl_now EXCEPT ![h] = 0]
    /\ UNCHANGED <<hdrVars, clock, rl_log, cfg_rl, app_rl,
                   cache_max_size_bytes, response_cache, cache_current_size, counter,
                   n_req, gen, upstream_calls, served, backends, fwd_log>>

\* lines 244-268: a fresh entry is served, an expired one takes the handler
\* to cache.remove of line 265, no entry takes it to line 270.  (served, the
\* history of the hits of Spec, is not kept here: the reply tells the hit.)
PipeLookup(h) ==
    /\ pc[h] = "lookup"
    /\ LET k == loc[h].key
           e == response_cache[k]
       IN  IF response_cache_enabled /\ e # NoEntry
           THEN IF is_fresh(clock, e.expires_at)
                THEN /\ FinishWith(h, e.status, "cache", replay_headers(e.headers), e.body)
                     /\ n_req' = n_req
                ELSE /\ pc' = [pc EXCEPT ![h] = "remove"]
                     /\ n_req' = n_req + 1
                     /\ loc' = loc
           ELSE /\ pc' = [pc EXCEPT ![h] = "select"]
                /\ n_req' = n_req + 1
                /\ loc' = loc
    /\ UNCHANGED <<hdrVars, clock, rlVars, cache_max_size_bytes, response_cache,
                   cache_current_size, counter, gen, upstream_calls, served, backends,
                   fwd_log>>

\* main.rs 101-116 without a size cap; an AppState without backends is one
\* that config.rs 150 does not let main build, the handler tests for it
InitPipe ==
    /\ HdrInit /\ RlTableInit /\ CacheInit /\ clock = 0
    /\ cfg_rl \in PipeRlConfigs
    /\ app_rl = build_app_rl(cfg_rl)
    /\ cache_max_size_bytes = <<>>
    /\ backends \in {<<>>, Backends}

NextPipe ==
    \/ RlTick
    \/ \E h \in Handlers :
          \/ PipeArrive(h)
          \/ PipeGate(h)
          \/ PipeLookup(h)
          \/ SelectAndSend(h)
          \/ UpstreamRespond(h)
          \/ UpstreamFail(h)
          \/ BufferFail(h)
          \/ Cancel(h)
          \/ CacheInsert(h)
          \/ SizeAdd(h)
          \/ Return(h)

SpecPipe == InitPipe /\ [][NextPipe]_vars

\* ================================================================ claims

ForbiddenUpstream == HOP_BY_HOP_HEADERS \cup {"authorization", "proxy-authorization"}

XTraceOk == [name |-> "x-trace", val |-> <<"a">>]

\* C1: the upstream request built by sanitize_and_forward_headers carries no
\* header whose name is, ignoring case, a hop-by-hop name, authorization or
\* proxy-authorization, and every well-formed X-Trace header of the inbound
\* request is forwarded.
C1_HeaderHygiene ==
    hdr_pc = "built" =>
        /\ \A i \in 1..Len(rb_headers) :
              to_ascii_lowercase(rb_headers[i].name) \notin ForbiddenUpstream
        /\ \A i \in 1..Len(req_headers) :
              req_headers[i] = XTraceOk => \E j \in 1..Len(rb_headers) : rb_headers[j] = XTraceOk

\* Scenario 6: Authorization and X-Trace in, X-Trace alone out.
C1_Witness ==
    /\ hdr_pc = "built"
    /\ req_headers = <<[name |-> "authorization", val |-> <<"a">>], XTraceOk>>
    /\ rb_headers = <<XTraceOk>>

ChecksOf(ip) == SelectSeq(rl_log, LAMBDA e : e.ip = ip)

\* The first three checks of ip: the first for an unseen ip, the second
\* 500 ms and the third 1500 ms after the first.
C2_Scenario(ip) ==
    LET L == ChecksOf(ip)
    IN  /\ Len(L) >= 3
        /\ L[1].fresh
        /\ L[2].now = L[1].now + 500
        /\ L[3].now = L[1].now + 1500

\* C2 as stated: per_minute=60, burst=1, an unseen ip: the first request is
\* forwarded, the second, 500 ms later, is denied, the third, 1500 ms after
\* the first, is forwarded.
C2_AsStated ==
    \A ip \in IPs :
        C2_Scenario(ip) =>
            LET L == ChecksOf(ip) IN L[1].ok /\ ~L[2].ok /\ L[3].ok

\* C2 amended: the first request of an unseen ip is denied (its bucket
\* starts with 0 tokens), the second, 500 ms later, is denied, the third,
\* 1500 ms after the first, is forwarded.
C2_FirstDenied ==
    \A ip \in IPs :
        C2_Scenario(ip) =>
            LET L == ChecksOf(ip) IN ~L[1].ok /\ ~L[2].ok /\ L[3].ok

C2_Witness ==
    \E ip \in IPs :
        /\ C2_Scenario(ip)
        /\ ChecksOf(ip)[3].ok
        /\ ChecksOf(ip)[1].at = ChecksOf(ip)[1].now

AdmittedOf(ip) == SelectSeq(rl_log, LAMBDA e : e.ip = ip /\ e.ok)

\* C3: for one ip, the requests admitted in any window of T seconds number at
\* most burst + floor(T * per_minute / 60).  (The tightest windows start and
\* end at an admission; `at` is the time of the admission.)
C3_RateBound ==
    \A ip \in IPs :
        LET A == AdmittedOf(ip)
        IN  \A i \in 1..Len(A) : \A j \in i..Len(A) :
                (j - i + 1) <= rate_limit_burst
                    + ((A[j].at - A[i].at) * rate_limit_per_minute) \div TokenScale

\* ---- the response cache

CachedKeys == {k \in CacheKeys : response_cache[k] # NoEntry}

RECURSIVE SumSizesOver(_)
SumSizesOver(K) ==
    IF K = {} THEN 0
    ELSE LET k == CHOOSE x \in K : TRUE IN response_cache[k].size + SumSizesOver(K \ {k})

\* the sum of size over the entries present in the cache
SumSizes == SumSizesOver(CachedKeys)

\* a handler between its cache.insert and the end of its eviction pass, or
\* inside the removal of an expired entry
InCacheUpdate(h) == pc[h] \in {"add", "snap", "load", "evict", "sub", "remove"}

Quiescent == \A h \in Handlers : ~InCacheUpdate(h)

\* C4: in every quiescent state (no handler inside a cache insert, eviction
\* or removal) cache_current_size equals the sum of size over the entries
\* present in the cache.
C4_CounterIsSum == Quiescent => cache_current_size = SumSizes

\* C5: with cache_max_size_bytes configured, in every quiescent state the sum
\* of size over the entries present in the cache is at most
\* cache_max_size_bytes.
C5_SumWithinCap ==
    (Quiescent /\ cache_max_size_bytes # <<>>) => SumSizes <= cache_max_size_bytes[1]

\* a quiescent state after an eviction: both requests have stored an entry,
\* one of the two is left
C5_Witness ==
    /\ Quiescent
    /\ cache_max_size_bytes # <<>>
    /\ \E k1 \in CacheKeys, k2 \in CacheKeys :
          /\ k1 # k2
          /\ gen[k1] = 1 /\ gen[k2] = 1
          /\ response_cache[k1] = NoEntry
          /\ response_cache[k2] # NoEntry

\* handler h ends its eviction pass in this step
PassEnds(h) == pc[h] \in {"load", "evict", "sub"} /\ pc'[h] = "reply"

\* C6 as stated: when an insert and its eviction pass are over (cap set), the
\* key just inserted is still in the cache and cache_current_size is at most
\* cache_max_size_bytes plus the size of the inserted entry.
C6_AsStated ==
    [][\A h \in Handlers :
          PassEnds(h) =>
              /\ response_cache'[loc[h].key] # NoEntry
              /\ cache_current_size' <= cache_max_size_bytes[1] + Len(loc[h].body)]_vars

IsSortedByExpiry(items) ==
    \A i \in 1..Len(items) : \A j \in i..Len(items) :
        items[i].expires_at <= items[j].expires_at

\* C6 amended: the entry just inserted is not protected.  A pass goes through
\* its snapshot in ascending expires_at order and removes the entry it has
\* reached, the one just inserted included, whenever its running total still
\* exceeds cache_max_size_bytes; it ends when the running total is within the
\* cap or the snapshot is used up.
C6_EvictedInExpiryOrder ==
    \A h \in Handlers :
        /\ pc[h] \in {"load", "evict", "sub"} => IsSortedByExpiry(loc[h].items)
        /\ pc[h] = "evict" =>
              /\ loc[h].items # <<>>
              /\ loc[h].cur_total > cache_max_size_bytes[1]
        /\ pc[h] = "sub" =>
              /\ loc[h].items # <<>>
              /\ loc[h].cur_total + loc[h].removed > cache_max_size_bytes[1]

\* a pass has just removed the entry it inserted itself, ahead of an entry
\* that expires later
C6_Witness ==
    \E h \in Handlers :
        /\ pc[h] = "sub"
        /\ Len(loc[h].items) = 2
        /\ loc[h].items[1].k = loc[h].key
        /\ loc[h].items[1].expires_at < loc[h].items[2].expires_at
        /\ gen[loc[h].key] = 1
        /\ \A g \in Handlers \ {h} : pc[g] = "idle"

\* C7: every response served from the cache comes from an entry whose
\* expires_at is strictly later than the time read at the lookup.
C7_ServedFresh == \A r \in served : r.expires_at > r.t

\* an entry served in the last second of its life, and a lookup that found
\* an entry with expires_at <= now and did not serve it
C7_Witness ==
    /\ \E r \in served : r.expires_at = r.t + MsPerSec
    /\ \E h \in Handlers :
          /\ pc[h] = "remove"
          /\ response_cache[loc[h].key].expires_at <= clock

\* C8: a request that finds an expired entry under its key removes the entry
\* and goes on as a miss (backend selection, upstream request): at line 265
\* the removal can be carried out.
C8_ExpiredRemoved == \A h \in Handlers : pc[h] = "remove" => ENABLED RemoveExpired(h)

\* C9: two responses served from the cache for one key, the lookup of each
\* within the TTL of the entry served first, carry the same body.
C9_SameBodyWithinTtl ==
    \A a \in served : \A b \in served :
        (a.key = b.key /\ a.t <= b.t /\ b.t < a.expires_at) => a.body = b.body

\* the lookup of key k by handler h, whatever it finds
LookupOf(h, k) == CacheHit(h, k) \/ CacheExpired(h, k) \/ CacheMiss(h, k)

\* the entry under k comes from a 200 whose ttl is the configured one, and
\* that ttl has not run out since the insert
WithinConfiguredTtl(k) ==
    /\ response_cache[k] # NoEntry
    /\ response_cache[k].cfg
    /\ clock < response_cache[k].t0 + cache_ttl_secs[1] * MsPerSec

\* C10: caching enabled, a GET answered 200 without Cache-Control: the entry
\* stays (no cap configured), and a later GET of the same uri within the
\* configured ttl is served from the cache, with the stored body and without
\* an upstream request.
C10_SecondGetFromCache ==
    [][\A k \in CacheKeys :
          /\ (cache_max_size_bytes = <<>> /\ response_cache[k] # NoEntry)
                => response_cache'[k] # NoEntry
          /\ \A h \in Handlers :
                (WithinConfiguredTtl(k) /\ LookupOf(h, k)) =>
                    /\ pc'[h] = "idle"
                    /\ upstream_calls' = upstream_calls
                    /\ served' = served \cup
                          {[key |-> k, status |-> 200, body |-> response_cache[k].body,
                            expires_at |-> response_cache[k].t0
                                               + cache_ttl_secs[1] * MsPerSec,
                            gen |-> response_cache[k].gen, t |-> clock]}]_vars

\* one GET went upstream and was stored under the configured ttl; a second
\* GET of the uri one second later was served from the cache
C10_Witness ==
    /\ upstream_calls = 1
    /\ n_req = 1
    /\ \E r \in served :
          /\ response_cache[r.key].cfg
          /\ response_cache[r.key].gen = r.gen
          /\ r.body = response_cache[r.key].body
          /\ r.t = response_cache[r.key].t0 + MsPerSec

\* ---- the cacheability gate

\* the directives of a response's Cache-Control header
DirectivesOf(cc) == IF cc = <<>> THEN {} ELSE {cc[1][i] : i \in 1..Len(cc[1])}

\* the header holds the directive no-store or no-cache
ForbidsCaching(cc) ==
    \E d \in DirectivesOf(cc) : ~d.eq /\ to_ascii_lowercase(d.k) \in {"no-store", "no-cache"}

MaxAgeZero == <<<<Part("max-age", TRUE, <<"0">>)>>>>

\* C12: a 200 answer to a GET with Cache-Control: max-age=0 takes the
\* non-caching path: the body is streamed and no entry is inserted.
C12_MaxAgeZeroStreamed ==
    [][\A h \in Handlers : \A body \in Bodies :
          (UpstreamRespondWith(h, 200, MaxAgeZero, body) /\ loc[h].key[1] = "GET") =>
              /\ pc'[h] = "reply"
              /\ loc'[h].reply = [status |-> 200, body_from |-> "stream"]]_vars

\* ---- backend selection

\* the number of requests sent to the backend of index b
SentTo(b) == Cardinality({i \in 1..Len(fwd_log) : fwd_log[i] = b})

\* C13: of N requests forwarded one after the other, each of the n backends
\* gets N div n, or one more when n does not divide N, the i-th request going
\* to backend (i - 1) mod n; with two backends and five requests B0 gets the
\* requests 1, 3, 5 and B1 gets 2, 4.
C13_RoundRobin ==
    LET n == Len(backends)
        N == Len(fwd_log)
    IN  /\ \A b \in 0..(n - 1) :
              /\ SentTo(b) >= N \div n
              /\ SentTo(b) <= N \div n + (IF N % n = 0 THEN 0 ELSE 1)
        /\ \A i \in 1..N : fwd_log[i] = (i - 1) % n
        /\ (n = 2 /\ N = 5) => fwd_log = <<0, 1, 0, 1, 0>>

C13_Witness == Len(backends) = 2 /\ fwd_log = <<0, 1, 0, 1, 0>>

\* ---- upstream failures

\* C14: when the upstream gives no response headers within backend_timeout
\* the client gets 504, when the send fails with a transport error it gets
\* 502; in both cases nothing of an upstream response is passed on and the
\* cache (entries and size counter) is left unchanged.
C14_SendFailureStatus ==
    [][\A h \in Handlers : \A failure \in SendFailures :
          UpstreamFailWith(h, failure) =>
              /\ pc'[h] = "reply"
              /\ loc'[h].reply =
                    [status |-> IF failure = "timeout" THEN 504 ELSE 502, body_from |-> "none"]
              /\ response_cache' = response_cache
              /\ cache_current_size' = cache_current_size]_vars

\* a request timed out while the cache holds an entry
C14_Witness ==
    \E h \in Handlers :
        /\ pc[h] = "reply"
        /\ loc[h].reply = [status |-> 504, body_from |-> "none"]
        /\ CachedKeys # {}

\* ---- the burst default

\* C15: with rate limiting enabled and rate_limit_burst unset or zero, the
\* burst of the token bucket is rate_limit_per_minute, so a check made at
\* least one token's refill time after the previous check of its ip is
\* admitted.
C15_BurstDefault ==
    (app_rl # Unbuilt /\ cfg_rl.burst \in {<<>>, <<0>>}) =>
        /\ burst_used = per_min
        /\ \A ip \in IPs :
              LET L == ChecksOf(ip)
              IN  \A i \in 2..Len(L) :
                      (L[i].now - L[i - 1].now) * per_min >= TokenScale => L[i].ok

\* ---- concurrent rate-limit checks

\* the orders in which n checks can be run one at a time
Orders(n) == {f \in [1..n -> 1..n] : \A i \in 1..n : \E j \in 1..n : f[j] = i}

\* the bucket after the first m checks of L run one at a time in the order
\* f, when each of them is decided as the log says; NoBucket when one of them
\* is decided otherwise
RECURSIVE RunInOrder(_, _, _)
RunInOrder(L, f, m) ==
    IF m = 0 THEN new_bucket(L[f[1]].now)
    ELSE LET before == RunInOrder(L, f, m - 1)
             r == bucket_check(before, L[f[m]].now)
         IN  IF before = NoBucket \/ r.allowed # L[f[m]].ok THEN NoBucket ELSE r.bucket

\* C16: the checks of one ip are linearizable: their outcomes and the bucket
\* they leave are those of running them one at a time in some order, time
\* moving forward from one check to the next and each check refilling by the
\* time since the check before it.
C16_Linearizable ==
    \A ip \in IPs :
        LET L == ChecksOf(ip)
        IN  L # <<>> =>
              \E f \in Orders(Len(L)) :
                  /\ \A i \in 2..Len(L) : L[f[i - 1]].now <= L[f[i]].now
                  /\ RunInOrder(L, f, Len(L)) = rate_limit_map[ip]

\* C17: the elapsed time of a refill is never negative and a bucket's
\* last_refill never moves backward.
C17_LastRefillMonotonic ==
    [][\A ip \in IPs :
          rate_limit_map[ip] # NoBucket =>
              /\ rate_limit_map'[ip].last >= rate_limit_map[ip].last
              /\ \A h \in Handlers :
                    rl_pc[h] = "entry" =>
                        duration_since(rl_now[h], rate_limit_map[ip].last) >= 0]_vars

\* ---- which responses become entries

IsNumeric(v) ==
    LET w == trim_matches_quote(v) IN w # <<>> /\ \A i \in 1..Len(w) : w[i] \in Digits

\* the numbers given by the header's directives of this name
NumericValues(cc, name) ==
    {digits_value(trim_matches_quote(d.v)) :
        d \in {e \in DirectivesOf(cc) :
                  e.eq /\ to_ascii_lowercase(e.k) = name /\ IsNumeric(e.v)}}

\* the TTL by first match: s-maxage, else max-age, else cache_ttl_secs
FirstMatchTtl(cc) ==
    IF NumericValues(cc, "s-maxage") # {} THEN CHOOSE n \in NumericValues(cc, "s-maxage") : TRUE
    ELSE IF NumericValues(cc, "max-age") # {} THEN CHOOSE n \in NumericValues(cc, "max-age") : TRUE
    ELSE cache_ttl_secs[1]

PassRemoves(h) == pc[h] = "evict" /\ pc'[h] = "sub"

\* the entry the snapshot item stands for is in the cache
StillCached(item) == response_cache[item.k].gen = item.gen

\* the order of the removals, and no removal ahead of a snapshot entry that
\* expires strictly earlier and is still in the cache
RemovesEarliestFirst(h) ==
    PassRemoves(h) =>
        LET item == Head(loc[h].items)
        IN  /\ response_cache' = [response_cache EXCEPT ![item.k] = NoEntry]
            /\ \A i \in 1..Len(loc[h].done) :
                  /\ loc[h].done[i].expires_at <= item.expires_at
                  /\ loc[h].done[i].expires_at < item.expires_at =>
                        ~StillCached(loc[h].done[i])
            /\ \A i \in 1..Len(loc[h].items) :
                  item.expires_at <= loc[h].items[i].expires_at

C21_NoPartialBody ==
    [][/\ \A h \in Handlers :
             /\ \A cc \in ResponseCCs, partial \in PartialBodies :
                   BufferFailWith(h, cc, partial) =>
                       /\ loc'[h].reply = [status |-> 502, body_from |-> "discarded"]
                       /\ pc'[h] = "reply"
                       /\ response_cache' = response_cache
                       /\ cache_current_size' = cache_current_size
             /\ Cancel(h) =>
                   /\ pc'[h] = "reply"
                   /\ loc'[h].reply.status = 0
                   /\ response_cache' = response_cache
                   /\ cache_current_size' = cache_current_size
             /\ (pc[h] = "insert" /\ pc'[h] # "insert") => loc[h].body \in Bodies
       /\ \A k \in CacheKeys :
             response_cache'[k] # NoEntry => response_cache'[k].body \in Bodies]_vars

\* the body read of a GET failed and the handler has its 502 while nothing
\* was ever stored under its key; the other handler was cancelled
C21_Witness ==
    \E h \in Handlers :
        /\ pc[h] = "reply"
        /\ loc[h].key[1] = "GET"
        /\ loc[h].reply = [status |-> 502, body_from |-> "discarded"]
        /\ gen[loc[h].key] = 0
        /\ response_cache[loc[h].key] = NoEntry
        /\ \E g \in Handlers \ {h} :
              pc[g] = "reply" /\ loc[g].reply.body_from = "cancelled"

\* ---- the life of a bucket

\* C24: a bucket appears in the table only in the first check for an ip the
\* table has not seen, with tokens = 0 and last_refill = the `now` of that
\* check; a bucket that is in the table stays in the table.
C24_BucketCreatedOnce ==
    [][\A ip \in IPs :
          /\ (rate_limit_map[ip] = NoBucket /\ rate_limit_map'[ip] # NoBucket) =>
                /\ ChecksOf(ip) = <<>>
                /\ \E h \in Handlers :
                      /\ rl_pc[h] = "entry" /\ rl_pc'[h] = "idle"
                      /\ rl_ip[h] = ip
                      /\ rate_limit_map'[ip] = [tokens |-> 0, last |-> rl_now[h]]
          /\ rate_limit_map[ip] # NoBucket => rate_limit_map'[ip] # NoBucket
          /\ ChecksOf(ip) # <<>> => rate_limit_map[ip] # NoBucket]_vars

\* one ip has had its first check, which read `now` before a tick and made
\* the bucket after it; the other ip has had two checks, the second on the
\* bucket the first made
C24_Witness ==
    \E ip \in IPs :
        /\ Len(ChecksOf(ip)) = 1
        /\ ChecksOf(ip)[1].fresh
        /\ ChecksOf(ip)[1].at > ChecksOf(ip)[1].now
        /\ rate_limit_map[ip] = [tokens |-> 0, last |-> ChecksOf(ip)[1].now]
        /\ \E other \in IPs \ {ip} :
              /\ Len(ChecksOf(other)) = 2
              /\ ChecksOf(other)[1].fresh /\ ~ChecksOf(other)[2].fresh
              /\ rate_limit_map[other] # NoBucket

\* ---- the order of the pipeline

\* C22: admission comes before the cache and the backends.  A request the
\* gate denies is answered 429 whatever the cache holds, and the step
\* changes neither the backend cursor, nor the requests sent upstream, nor
\* the cache; a handler leaves its start only for the gate, or for the
\* lookup when the gate has nothing to check, and reaches the lookup from the
\* gate only when allowed; with no backend the handler answers 502 at once,
\* the gate is not run and no bucket changes.
C22_AdmissionFirst ==
    [][\A h \in Handlers :
          /\ (pc[h] = "gate" /\ pc'[h] # "gate") =>
                LET b == IF rate_limit_map[rl_ip[h]] = NoBucket
                         THEN new_bucket(rl_now[h]) ELSE rate_limit_map[rl_ip[h]]
                IN  IF bucket_check(b, rl_now[h]).allowed
                    THEN pc'[h] = "lookup"
                    ELSE /\ pc'[h] = "reply"
                         /\ loc'[h].reply = [status |-> 429, body_from |-> "none"]
                         /\ UNCHANGED <<counter, upstream_calls, fwd_log, response_cache,
                                        cache_current_size, gen>>
          /\ (pc[h] = "idle" /\ pc'[h] # "idle") =>
                IF backends = <<>>
                THEN /\ pc'[h] = "reply"
                     /\ loc'[h].reply = [status |-> 502, body_from |-> "none"]
                     /\ UNCHANGED <<rate_limit_map, rl_pc, rl_ip, rl_now, counter,
                                    upstream_calls, response_cache>>
                ELSE pc'[h] \in {"gate", "lookup"}
          /\ (pc'[h] = "lookup" /\ pc[h] # "lookup") => pc[h] \in {"idle", "gate"}
          /\ (pc'[h] \in {"select", "remove"} /\ pc[h] # pc'[h]) => pc[h] = "lookup"
          /\ (pc'[h] = "reply" /\ pc[h] # "reply" /\ loc'[h].reply.body_from = "cache") =>
                pc[h] = "lookup"]_vars

\* both handlers hold a 429 for a GET of the uri whose entry is in the cache
\* and fresh: the handler that had made the entry was denied afterwards
C22_Witness ==
    /\ response_cache[cache_key("GET", "/x")] # NoEntry
    /\ is_fresh(clock, response_cache[cache_key("GET", "/x")].expires_at)
    /\ \A h \in Handlers :
          /\ pc[h] = "reply"
          /\ loc[h].key = cache_key("GET", "/x")
          /\ loc[h].reply = [status |-> 429, body_from |-> "none"]

\* ---- the frame of a check

\* neither X-Forwarded-For nor the connection gives an address
NoIpAttributable(req) ==
    /\ req.xff = None \/ Head(req.xff) \notin IPs
    /\ req.peer = None

\* C23: a rate-limit check changes at most the bucket of the ip it resolved
\* and no other bucket; with rate limiting disabled, or with no ip to
\* attribute the request to, the check allows the request and changes no
\* bucket.
C23_CheckFrame ==
    [][\A h \in Handlers :
          /\ \A k \in PipeKeys, req \in PipeClients :
                (PipeArriveWith(h, k, req) /\ backends # <<>>) =>
                    /\ rate_limit_map' = rate_limit_map
                    /\ IF app_rl.per_minute = <<>> \/ NoIpAttributable(req)
                       THEN pc'[h] = "lookup" /\ UNCHANGED <<rl_pc, rl_ip, rl_now>>
                       ELSE pc'[h] = "gate" /\ rl_ip'[h] \in IPs
          /\ (pc[h] = "gate" /\ pc'[h] # "gate") =>
                \A ip \in IPs \ {rl_ip[h]} : rate_limit_map'[ip] = rate_limit_map[ip]
          /\ rate_limit_map' # rate_limit_map =>
                \E g \in Handlers : pc[g] = "gate" /\ pc'[g] # "gate"]_vars

\* the bucket of one ip is as its first check left it at time 0, the other
\* ip has been checked later, and a request that went past the gate is at
\* the lookup
C23_Witness ==
    /\ rate_limit_map["10.0.0.1"] = [tokens |-> 0, last |-> 0]
    /\ rate_limit_map["10.0.0.2"] # NoBucket
    /\ rate_limit_map["10.0.0.2"].last > 0
    /\ \E h \in Handlers : pc[h] = "lookup"

\* ---- the backend cursor

\* a handler that is to draw from the cursor and can go on to do it
DrawPending(h) ==
    \/ pc[h] = "select"
    \/ pc[h] = "remove" /\ write_lockable(shard_of(loc[h].key))

\* C29: the cursor advances by one, in one step, for each request that
\* passed admission and was not served from the cache, and by nothing else:
\* a cache hit, a 429 and the 502 for no backend leave it as it is, the i-th
\* draw sees the value i - 1 (no two draws see the same value), and when no
\* draw is pending the cursor equals the number of the requests that passed
\* admission and were not served from the cache.
C29_CursorPerRequest ==
    [][/\ \A h \in Handlers :
             /\ (pc[h] = "select" /\ pc'[h] # "select") =>
                   pc'[h] = "send" /\ counter' = wrapping_add(counter, 1)
             /\ (pc[h] \in {"idle", "gate", "lookup"} /\ pc'[h] = "reply") =>
                   counter' = counter
       /\ counter' # counter =>
             Cardinality({h \in Handlers : pc[h] = "select" /\ pc'[h] = "send"}) = 1
       /\ Len(fwd_log') = upstream_calls'
       /\ counter' = Len(fwd_log') % UsizeMod
       /\ \A i \in 1..Len(fwd_log') : fwd_log'[i] = (i - 1) % Len(backends)
       /\ (\A h \in Handlers : ~DrawPending(h)') => counter' = n_req' % UsizeMod]_vars

\* ---- the life of an entry

\* the fields of a CacheEntry (the model keeps no headers)
EntryFields(e) ==
    [status |-> e.status, headers |-> e.headers, body |-> e.body,
     expires_at |-> e.expires_at, size |-> e.size]

\* C25: while a key stays in the cache the status, body, expires_at and size
\* stored under it do not change, and an entry leaves the cache only in the
\* removal on an expired lookup or in an eviction pass.
C25_EntriesImmutable ==
    [][\A k \in CacheKeys :
          response_cache[k] # NoEntry =>
              IF response_cache'[k] # NoEntry
              THEN EntryFields(response_cache'[k]) = EntryFields(response_cache[k])
              ELSE \E h \in Handlers :
                      \/ pc[h] = "remove" /\ pc'[h] = "select" /\ loc[h].key = k
                      \/ pc[h] = "evict" /\ pc'[h] = "sub"
                            /\ Head(loc[h].items).k = k]_vars

\* ---- the wrap of the cursor

\* the backend that cyclically follows b
NextBackend(b) == (b + 1) % Len(backends)

\* C26 as stated: every forwarded request, also the one that draws the value
\* after 2^w - 1, goes to the backend that cyclically follows the backend of
\* the request before it, for every number of backends.
C26_AsStated ==
    \A i \in 2..Len(fwd_log) : fwd_log[i] = NextBackend(fwd_log[i - 1])

\* C26 amended: succession survives the wrap only when the number of
\* backends divides 2^w.  The request that draws the value after 2^w - 1
\* draws 0 and goes to the first backend, which follows the backend of the
\* request before it exactly when the number of backends divides 2^w; every
\* other request goes to the backend that cyclically follows the one before.
C26_SuccessionAtWrap ==
    \A i \in 2..Len(fwd_log) :
        IF (i - 1) % UsizeMod = 0
        THEN /\ fwd_log[i] = 0
             /\ (fwd_log[i] = NextBackend(fwd_log[i - 1])) <=> (UsizeMod % Len(backends) = 0)
        ELSE fwd_log[i] = NextBackend(fwd_log[i - 1])

\* three backends: the request that drew 2^w - 1 and the one after it, which
\* drew 0, both went to the first backend or the wrap skipped a backend
C26_Witness ==
    /\ Len(backends) = 3
    /\ Len(fwd_log) = UsizeMod + 1
    /\ fwd_log[UsizeMod + 1] = 0
    /\ fwd_log[UsizeMod] = (UsizeMod - 1) % 3
    /\ fwd_log[UsizeMod + 1] # NextBackend(fwd_log[UsizeMod])

\* ---- the handlers under fair scheduling

\* one step of a request already accepted: the runtime polls every ready task,
\* and the client's 30 s timeout and the 10 s timeout around send bound each
\* wait for the upstream, so that one of the outcomes of line 299 or line 381
\* does happen
HandlerStep(h) ==
    \/ SelectAndSend(h)
    \/ UpstreamRespond(h)
    \/ UpstreamFail(h)
    \/ BufferFail(h)
    \/ CacheInsert(h)
    \/ SizeAdd(h)
    \/ Snapshot(h)
    \/ LoadTotal(h)
    \/ EvictRemove(h)
    \/ SizeSub(h)
    \/ Return(h)

SpecLive == Init /\ [][Next]_vars /\ \A h \in Handlers : WF_vars(HandlerStep(h))

\* C27: under fair scheduling every handler that has taken a request
\* eventually holds a response or an error status for it; none waits forever,
\* in particular not for the write lock of the cache shard whose entry it
\* still holds the lookup reference to.
C27_HandlersReturn ==
    \A h \in Handlers : (pc[h] \notin {"idle", "reply"}) ~> (pc[h] \in {"idle", "reply"})

\* ---- the size counter under a cap smaller than every body

\* bodies of one, two and three bytes
UnderBodies == Bodies \cup {<<3, 3, 3>>}

\* line 299 and line 381 with the bodies above
UpstreamRespondUnder(h) ==
    \E status \in Statuses, cc \in ResponseCCs, body \in UnderBodies :
        UpstreamRespondWith(h, status, cc, body)

\* cache_max_size_bytes = Some(1) (main.rs passes the configured value on)
InitUnder ==
    /\ HdrInit /\ RlInit /\ CacheEmptyInit /\ clock = 0 /\ backends = Backends
    /\ cache_max_size_bytes = <<1>>

NextUnder ==
    \/ Tick
    \/ \E h \in Handlers :
          \/ Lookup(h)
          \/ SelectAndSend(h)
          \/ UpstreamRespondUnder(h)
          \/ UpstreamFail(h)
          \/ CacheInsert(h)
          \/ SizeAdd(h)
          \/ Snapshot(h)
          \/ LoadTotal(h)
          \/ EvictRemove(h)
          \/ SizeSub(h)
          \/ Return(h)

SpecUnder == InitUnder /\ [][NextUnder]_vars

\* C28: the fetch_sub of an eviction pass never takes more from
\* cache_current_size than the counter holds, so the counter never wraps
\* below zero, whichever handler inserted the removed entry and whether or not
\* that handler has added the entry's size yet.
C28_NoUnderflow ==
    [][\A h \in Handlers :
          (pc[h] = "sub" /\ pc'[h] # "sub") => loc[h].removed <= cache_current_size]_vars

\* ---- what is stored and what is served

\* The headers an upstream response carries next to Cache-Control: some of
\* them hop-by-hop, values of visible ASCII, of non-ASCII text and of bytes
\* that are not UTF-8.
UpstreamHeaderLists ==
    {<<>>,
     <<Header("content-type", <<"a">>)>>,
     <<Header("connection", <<"a">>), Header("content-type", <<"a", "HT", "a">>)>>,
     <<Header("etag", <<"HI">>), Header("transfer-encoding", <<"a">>),
       Header("x-trace", <<"BAD">>)>>}

StoredRespond(h) ==
    \E status \in Statuses, hdrs \in UpstreamHeaderLists, cc \in ResponseCCs, body \in Bodies :
        UpstreamRespondFull(h, status, hdrs, cc, body)

\* main.rs 101-116: rate limiting off, no size cap
InitStored ==
    /\ HdrInit /\ RlTableInit /\ CacheEmptyInit /\ clock = 0
    /\ cfg_rl = [per_minute |-> <<>>, burst |-> <<>>]
    /\ app_rl = build_app_rl(cfg_rl)
    /\ cache_max_size_bytes = <<>>
    /\ backends = Backends

NextStored ==
    \/ Tick
    \/ \E h \in Handlers :
          \/ PipeArrive(h)
          \/ PipeLookup(h)
          \/ SelectAndSend(h)
          \/ StoredRespond(h)
          \/ UpstreamFail(h)
          \/ CacheInsert(h)
          \/ SizeAdd(h)
          \/ Return(h)

SpecStored == InitStored /\ [][NextStored]_vars

\* the entry is made of this status, these headers and this body
EntryHolds(e, status, headers, body) ==
    e.status = status /\ e.headers = headers /\ e.body = body

\* C30: every cache entry has a key that begins with GET, status 200, a
\* size equal to the length of its body and stored headers without a
\* hop-by-hop name.  The miss that inserts an entry stores in it the status,
\* headers and body of the response it then returns, the entry keeps them
\* until another insert under its key, and a response served from the entry
\* has the entry's status, headers and body.
C30_StoredIsServed ==
    [][/\ \A k \in CacheKeys :
             response_cache'[k] # NoEntry =>
                /\ k[1] = "GET"
                /\ response_cache'[k].status = 200
                /\ response_cache'[k].size = Len(response_cache'[k].body)
                /\ \A i \in 1..Len(response_cache'[k].headers) :
                      ~is_hop_by_hop(response_cache'[k].headers[i].name)
       /\ \A k \in CacheKeys :
             response_cache'[k] # response_cache[k] =>
                \E h \in Handlers : pc[h] = "insert" /\ pc'[h] = "add" /\ loc[h].key = k
       /\ \A h \in Handlers :
             /\ (pc[h] = "insert" /\ pc'[h] = "add") =>
                   /\ EntryHolds(response_cache'[loc[h].key], 200, loc[h].headers, loc[h].body)
                   /\ loc'[h] = loc[h]
             /\ (pc[h] = "add" /\ pc'[h] = "reply") =>
                   /\ loc'[h].reply = [status |-> 200, body_from |-> "buffer"]
                   /\ loc'[h].response = [headers |-> loc[h].headers, body |-> loc[h].body]
             /\ (pc[h] = "lookup" /\ pc'[h] = "reply") =>
                   /\ loc'[h].reply.body_from = "cache"
                   /\ EntryHolds(response_cache[loc[h].key], loc'[h].reply.status,
                                 loc'[h].response.headers, loc'[h].response.body)
                   /\ response_cache[loc[h].key] # NoEntry]_vars

\* a response is served from an entry whose upstream response came with a
\* hop-by-hop header, while the handler of the miss still holds its own
C30_Witness ==
    \E h, g \in Handlers :
        /\ pc[h] = "reply" /\ loc[h].reply = [status |-> 200, body_from |-> "cache"]
        /\ loc[h].response =
              [headers |-> <<Header("etag", <<"HI">>), Header("x-trace", <<"BAD">>)>>,
               body |-> <<2, 2>>]
        /\ pc[g] = "reply" /\ loc[g].reply = [status |-> 200, body_from |-> "buffer"]
        /\ loc[g].response = loc[h].response
        /\ loc[g].key = loc[h].key

====
